---- MODULE Spec2Model ----
(***************************************************************************)
(* Model of serve.py: the local HTTP/HTTPS development server for the      *)
(* WebGPU web build.  One process (main) is run repeatedly by the user;    *)
(* the certificate directory, the web build directory and the machine's    *)
(* network configuration persist between runs.                             *)
(***************************************************************************)
EXTENDS Integers, Sequences, FiniteSets, TLC

\* ------------------------------------------------------------------------
\* Bounds
\* ------------------------------------------------------------------------
MaxRuns == 3        \* number of successive runs of the program
MaxLines == 2       \* number of lines the interface listing command prints

\* ------------------------------------------------------------------------
\* Program constants
\* ------------------------------------------------------------------------
DEFAULT_PORT == 8000

HTTPS_FLAG == <<"-", "-", "h", "t", "t", "p", "s">>
PROGRAM_NAME == <<"s", "e", "r", "v", "e", ".", "p", "y">>
LOOPBACK == "127.0.0.1"

NoFile == [exists |-> FALSE]
NoValue == "none"

\* ------------------------------------------------------------------------
\* Inputs
\* ------------------------------------------------------------------------
Ports == {8000, 9443}
LanAddrs == {"192.168.1.5", "10.0.0.7"}
Addrs == {LOOPBACK} \cup LanAddrs

DigitChars == <<"0", "1", "2", "3", "4", "5", "6", "7", "8", "9">>

RECURSIVE str(_)
\* decimal text of a non-negative integer, as the shell passes it in argv
str(n) ==
    IF n < 10 THEN <<DigitChars[n + 1]>>
    ELSE Append(str(n \div 10), DigitChars[(n % 10) + 1])

\* the command lines "<program> [--https] [port]", both orders
CommandLines ==
    {<<PROGRAM_NAME>>, <<PROGRAM_NAME, HTTPS_FLAG>>}
    \cup {<<PROGRAM_NAME, str(p)>> : p \in Ports}
    \cup {<<PROGRAM_NAME, HTTPS_FLAG, str(p)>> : p \in Ports}
    \cup {<<PROGRAM_NAME, str(p), HTTPS_FLAG>> : p \in Ports}

RECURSIVE SeqsUpTo(_, _)
SeqsUpTo(S, n) ==
    IF n = 0 THEN {<<>>}
    ELSE LET shorter == SeqsUpTo(S, n - 1)
         IN  shorter \cup {Append(s, x) : s \in shorter, x \in S}

\* one line of "ip -4 addr show": its first word and, for an address line,
\* the address of the "<addr>/<prefix>" word that follows
IpLines ==
    {[head |-> "inet", addr |-> a, plen |-> 24] : a \in Addrs}
    \cup {[head |-> "inet6", addr |-> "::1", plen |-> 128]}

\* what running the listing command can do: the executable is missing, it
\* exits non-zero (whatever it printed), or it exits zero with its output
IpOutcomes ==
    {[kind |-> "missing", lines |-> <<>>]}
    \cup {[kind |-> k, lines |-> l] :
            k \in {"ok", "failed"}, l \in SeqsUpTo(IpLines, MaxLines)}

NoOutcome == [kind |-> "notrun", lines |-> <<>>]

\* ------------------------------------------------------------------------
\* WebGPURequestHandler.extensions_map
\* ------------------------------------------------------------------------
Exts == {".wasm", ".js", ".mjs", ".html"}

\* types a platform's default table may give an extension
DefaultTypes(e) ==
    IF e = ".html" THEN {"text/html"}
    ELSE IF e = ".wasm" THEN {"application/wasm", "application/octet-stream"}
    ELSE {"application/javascript", "text/javascript"}

AllTypes == UNION {DefaultTypes(e) : e \in Exts}

\* the default tables: any subset of the extensions, each with one of its types
PlatformMaps ==
    UNION {{f \in [D -> AllTypes] : \A e \in D : f[e] \in DefaultTypes(e)} :
            D \in SUBSET Exts}

\* the table of a current CPython on Linux
PythonDefaultMap ==
    [e \in Exts |->
        IF e = ".html" THEN "text/html"
        ELSE IF e = ".wasm" THEN "application/wasm"
        ELSE "text/javascript"]

Overrides ==
    [e \in {".wasm", ".js", ".mjs"} |->
        IF e = ".wasm" THEN "application/wasm" ELSE "application/javascript"]

\* {**a, **b}: the keys of both, b's value where both have the key
DictMerge(a, b) ==
    [k \in (DOMAIN a) \cup (DOMAIN b) |-> IF k \in DOMAIN b THEN b[k] ELSE a[k]]

extensions_map_PlatformWins(platform) == DictMerge(Overrides, platform)

extensions_map(platform) == DictMerge(platform, Overrides)

\* ------------------------------------------------------------------------
\* Argument parsing (main, first three statements)
\* ------------------------------------------------------------------------
DigitVal(c) == CHOOSE d \in 0..9 : DigitChars[d + 1] = c

RECURSIVE int(_)
\* int() of a decimal token
int(tok) ==
    IF Len(tok) = 0 THEN 0
    ELSE int(SubSeq(tok, 1, Len(tok) - 1)) * 10 + DigitVal(tok[Len(tok)])

ParseUseHttps_FirstOnly(av) == Len(av) >= 2 /\ av[2] = HTTPS_FLAG

ParseUseHttps(av) == \E i \in 1..Len(av) : av[i] = HTTPS_FLAG

ParseArgs(av) == SelectSeq(Tail(av), LAMBDA a : a # HTTPS_FLAG)

ParsePort(av) ==
    IF ParseArgs(av) # <<>> THEN int(ParseArgs(av)[1]) ELSE DEFAULT_PORT

\* ------------------------------------------------------------------------
\* get_lan_ips
\* ------------------------------------------------------------------------
Contains(s, x) == \E i \in 1..Len(s) : s[i] = x

RECURSIVE ScanLines_NoDedup(_, _)
ScanLines_NoDedup(lines, acc) ==
    IF lines = <<>> THEN acc
    ELSE LET line == Head(lines)
             next == IF line.head = "inet"
                     THEN Append(acc, line.addr)
                     ELSE acc
         IN  ScanLines_NoDedup(Tail(lines), next)

RECURSIVE ScanLines(_, _)
\* the for loop over output.splitlines()
ScanLines(lines, acc) ==
    IF lines = <<>> THEN acc
    ELSE LET line == Head(lines)
             next == IF line.head = "inet" /\ ~Contains(acc, line.addr)
                     THEN Append(acc, line.addr)
                     ELSE acc
         IN  ScanLines(Tail(lines), next)

get_lan_ips_Uncaught(outcome) ==
    IF outcome.kind = "ok"
    THEN [raised |-> FALSE, ips |-> ScanLines(outcome.lines, <<LOOPBACK>>)]
    ELSE [raised |-> TRUE, ips |-> <<>>]

\* the result of one call, given what the listing command did
get_lan_ips(outcome) ==
    IF outcome.kind = "ok"
    THEN [raised |-> FALSE, ips |-> ScanLines(outcome.lines, <<LOOPBACK>>)]
    ELSE [raised |-> FALSE, ips |-> <<LOOPBACK>>]

\* ------------------------------------------------------------------------
\* generate_cert: the SAN list
\* ------------------------------------------------------------------------
DnsEntry(name) == [type |-> "DNS", value |-> name]
IpEntry(ip) == [type |-> "IP", value |-> ip]

san_entries(ips) ==
    <<DnsEntry("localhost")>> \o [i \in 1..Len(ips) |-> IpEntry(ips[i])]

\* ------------------------------------------------------------------------
\* State
\* ------------------------------------------------------------------------
VARIABLES
    rootExists,     \* zig-out beside the program is a directory
    certFile,       \* certs/cert.pem
    keyFile,        \* certs/key.pem
    platformMap,    \* SimpleHTTPRequestHandler.extensions_map of the platform
    runs,           \* how many times the program has been started
    pc,             \* position of the running process in main
    argv,           \* sys.argv
    use_https,
    port,
    handlerMap,     \* WebGPURequestHandler.extensions_map
    certAtStart,    \* certs/cert.pem as the run found it
    keyAtStart,     \* certs/key.pem as the run found it
    sockBound,      \* the HTTPServer holds a bound listening socket
    tlsCert,        \* certificate loaded into the TLS context wrapping the socket
    ipCmd,          \* what the last run of the listing command did
    ips,            \* result of the last get_lan_ips call
    san,            \* SAN list of the last call of the generation command
    genCalls,       \* calls of generate_cert in this run
    attempts,       \* per startup step, how often this run tried it
    failure,        \* the startup step that failed in this run
    served,         \* serve_forever has been entered in this run
    accepted,       \* a connection has been accepted in this run
    contentType,    \* Content-Type of the last response
    advertised,     \* addresses printed as "or https://<ip>:<port> ..."
    interruptedAt,  \* position at which the user interrupt arrived
    exitStatus,
    stdout

envVars == <<rootExists, platformMap>>
fileVars == <<certFile, keyFile>>
configVars == <<runs, argv, use_https, port, handlerMap, certAtStart, keyAtStart>>
tlsVars == <<sockBound, tlsCert>>
lanVars == <<ipCmd, ips, advertised>>
genVars == <<san, genCalls>>
serveVars == <<served, accepted, contentType>>
endVars == <<failure, interruptedAt, exitStatus>>

vars == <<rootExists, certFile, keyFile, platformMap, runs, pc, argv,
          use_https, port, handlerMap, certAtStart, keyAtStart, sockBound,
          tlsCert, ipCmd, ips, san, genCalls, attempts, failure, served,
          accepted, contentType, advertised, interruptedAt, exitStatus, stdout>>

Steps == {"bind", "openssl", "load"}

\* a certificate and key as an earlier run with no LAN address left them
OldCert == [exists |-> TRUE, gen |-> 0, san |-> san_entries(<<LOOPBACK>>)]
OldKey == [exists |-> TRUE, gen |-> 0]

\* the state before the first run: the build directory is there or not, the
\* certificate directory holds none, one or both of the files
InitOn(maps) ==
    /\ rootExists \in BOOLEAN
    /\ certFile \in {NoFile, OldCert}
    /\ keyFile \in {NoFile, OldKey}
    /\ platformMap \in maps
    /\ runs = 0
    /\ pc = "idle"
    /\ argv = <<PROGRAM_NAME>>
    /\ use_https = FALSE
    /\ port = DEFAULT_PORT
    /\ handlerMap = <<>>
    /\ certAtStart = certFile
    /\ keyAtStart = keyFile
    /\ sockBound = FALSE
    /\ tlsCert = NoFile
    /\ ipCmd = NoOutcome
    /\ ips = <<>>
    /\ san = <<>>
    /\ genCalls = 0
    /\ attempts = [s \in Steps |-> 0]
    /\ failure = NoValue
    /\ served = FALSE
    /\ accepted = FALSE
    /\ contentType = NoValue
    /\ advertised = <<>>
    /\ interruptedAt = NoValue
    /\ exitStatus = -1
    /\ stdout = <<>>

Init == InitOn({PythonDefaultMap})

\* ------------------------------------------------------------------------
\* main
\* ------------------------------------------------------------------------
\* an uncaught exception: traceback, exit status 1
Raise(step) ==
    /\ failure' = step
    /\ stdout' = Append(stdout, "Traceback")
    /\ exitStatus' = 1
    /\ pc' = "exited"
    /\ UNCHANGED interruptedAt

\* the user starts the program; module constants and the handler class are
\* evaluated, then main parses sys.argv
StartRun(av) ==
    /\ pc \in {"idle", "exited"}
    /\ runs < MaxRuns
    /\ runs' = runs + 1
    /\ argv' = av
    /\ use_https' = ParseUseHttps(av)
    /\ port' = ParsePort(av)
    /\ handlerMap' = extensions_map(platformMap)
    /\ certAtStart' = certFile
    /\ keyAtStart' = keyFile
    /\ sockBound' = FALSE
    /\ tlsCert' = NoFile
    /\ ipCmd' = NoOutcome
    /\ ips' = <<>>
    /\ san' = <<>>
    /\ genCalls' = 0
    /\ attempts' = [s \in Steps |-> 0]
    /\ failure' = NoValue
    /\ served' = FALSE
    /\ accepted' = FALSE
    /\ contentType' = NoValue
    /\ advertised' = <<>>
    /\ interruptedAt' = NoValue
    /\ exitStatus' = -1
    /\ stdout' = <<>>
    /\ pc' = "check_dir"
    /\ UNCHANGED <<envVars, fileVars>>

CheckDir_NoExit ==
    /\ pc = "check_dir"
    /\ IF ~rootExists
       THEN /\ stdout' = stdout \o <<"Error: Web build directory not found",
                                     "Run 'zig build' first">>
            /\ pc' = "bind"
            /\ UNCHANGED exitStatus
       ELSE /\ pc' = "bind"
            /\ UNCHANGED <<stdout, exitStatus>>
    /\ UNCHANGED <<envVars, fileVars, configVars, tlsVars, lanVars, genVars,
                   serveVars, attempts, failure, interruptedAt>>

\* if not os.path.isdir(web_dir): ... sys.exit(1); os.chdir(web_dir)
CheckDir ==
    /\ pc = "check_dir"
    /\ IF ~rootExists
       THEN /\ stdout' = stdout \o <<"Error: Web build directory not found",
                                     "Run 'zig build' first">>
            /\ exitStatus' = 1
            /\ pc' = "exited"
       ELSE /\ pc' = "bind"
            /\ UNCHANGED <<stdout, exitStatus>>
    /\ UNCHANGED <<envVars, fileVars, configVars, tlsVars, lanVars, genVars,
                   serveVars, attempts, failure, interruptedAt>>

Bind_Retry ==
    /\ pc = "bind"
    /\ attempts' = [attempts EXCEPT !["bind"] = @ + 1]
    /\ \E ok \in BOOLEAN :
        IF ok
        THEN /\ sockBound' = TRUE
             /\ pc' = IF use_https THEN "cert_check" ELSE "announce"
             /\ UNCHANGED <<failure, stdout, exitStatus>>
        ELSE /\ attempts["bind"] < 2
             /\ pc' = "bind"
             /\ UNCHANGED <<sockBound, failure, stdout, exitStatus>>
    /\ UNCHANGED <<envVars, fileVars, configVars, tlsCert, lanVars, genVars,
                   serveVars, interruptedAt>>

\* server = http.server.HTTPServer(("0.0.0.0", port), handler): the bind
\* succeeds, or raises because the port is in use
Bind ==
    /\ pc = "bind"
    /\ attempts' = [attempts EXCEPT !["bind"] = @ + 1]
    /\ \E ok \in BOOLEAN :
        IF ok
        THEN /\ sockBound' = TRUE
             /\ pc' = IF use_https THEN "cert_check" ELSE "announce"
             /\ UNCHANGED <<failure, stdout, exitStatus, interruptedAt>>
        ELSE /\ Raise("bind")
             /\ UNCHANGED sockBound
    /\ UNCHANGED <<envVars, fileVars, configVars, tlsCert, lanVars, genVars,
                   serveVars>>

BundleMissing_Always == TRUE

BundleMissing_BothAbsent == ~certFile.exists /\ ~keyFile.exists

\* a file of the bundle is absent
BundleMissing == ~certFile.exists \/ ~keyFile.exists

CertCheckOn(missing) ==
    /\ pc = "cert_check"
    /\ IF missing
       THEN /\ pc' = "generate_cert"
            /\ UNCHANGED stdout
       ELSE /\ stdout' = Append(stdout, "Using existing certificate")
            /\ pc' = "load_cert"
    /\ UNCHANGED <<envVars, fileVars, configVars, tlsVars, lanVars, genVars,
                   serveVars, attempts, endVars>>

\* if not os.path.exists(CERT_FILE) or not os.path.exists(KEY_FILE)
CertCheck == CertCheckOn(BundleMissing)

\* generate_cert up to the call of the generation command: makedirs,
\* get_lan_ips, the SAN list, the two announcements
GenerateCertBegin(outcome) ==
    /\ pc = "generate_cert"
    /\ genCalls' = genCalls + 1
    /\ ipCmd' = outcome
    /\ LET r == get_lan_ips(outcome)
       IN  IF r.raised
           THEN /\ Raise("discovery")
                /\ UNCHANGED <<ips, san>>
           ELSE /\ ips' = r.ips
                /\ san' = san_entries(r.ips)
                /\ stdout' = stdout \o <<"Generating self-signed certificate...",
                                         "SAN entries">>
                /\ pc' = "openssl"
                /\ UNCHANGED endVars
    /\ UNCHANGED <<envVars, fileVars, configVars, tlsVars, advertised,
                   serveVars, attempts>>

NewCert == [exists |-> TRUE, gen |-> runs, san |-> san]
NewKey == [exists |-> TRUE, gen |-> runs]

\* subprocess.check_call(["openssl", "req", "-x509", ...]): the command
\* writes both files and exits zero, is not installed, or exits non-zero
\* (having written the key or nothing)
Openssl(result) ==
    /\ pc = "openssl"
    /\ attempts' = [attempts EXCEPT !["openssl"] = @ + 1]
    /\ CASE result = "ok" ->
              /\ certFile' = NewCert
              /\ keyFile' = NewKey
              /\ stdout' = Append(stdout, "Certificate written")
              /\ pc' = "load_cert"
              /\ UNCHANGED endVars
         [] result = "missing" ->
              /\ Raise("openssl")
              /\ UNCHANGED fileVars
         [] result = "failed" ->
              /\ Raise("openssl")
              /\ keyFile' \in {keyFile, NewKey}
              /\ UNCHANGED certFile
    /\ UNCHANGED <<envVars, configVars, tlsVars, lanVars, genVars, serveVars>>

\* the key and certificate on disk are a pair the TLS context accepts
Loadable ==
    /\ certFile.exists
    /\ keyFile.exists
    /\ certFile.gen = keyFile.gen

\* ctx.load_cert_chain(CERT_FILE, KEY_FILE); server.socket = ctx.wrap_socket(...)
\* loading raises when a file is absent, unreadable or not a matching pair
LoadCert ==
    /\ pc = "load_cert"
    /\ attempts' = [attempts EXCEPT !["load"] = @ + 1]
    /\ \E ok \in BOOLEAN :
        /\ ok => Loadable
        /\ IF ok
           THEN /\ tlsCert' = certFile
                /\ pc' = "announce"
                /\ UNCHANGED <<endVars, stdout>>
           ELSE /\ Raise("load")
                /\ UNCHANGED tlsCert
    /\ UNCHANGED <<envVars, fileVars, configVars, sockBound, lanVars, genVars,
                   serveVars>>

NonLoopback(list) == SelectSeq(list, LAMBDA ip : ip # LOOPBACK)

\* the startup messages, with the LAN URLs under --https, up to the entry
\* of server.serve_forever()
Announce(outcome) ==
    /\ pc = "announce"
    /\ IF use_https
       THEN LET r == get_lan_ips(outcome)
            IN  /\ outcome \in IpOutcomes
                /\ ipCmd' = outcome
                /\ IF r.raised
                   THEN /\ Raise("discovery")
                        /\ UNCHANGED <<ips, advertised, served>>
                   ELSE /\ ips' = r.ips
                        /\ advertised' = NonLoopback(r.ips)
                        /\ stdout' = stdout \o <<"Serving web build from",
                                                 "Open https://localhost",
                                                 "NOTE", "Press Ctrl+C to stop">>
                        /\ served' = TRUE
                        /\ pc' = "serving"
                        /\ UNCHANGED endVars
       ELSE /\ outcome = NoOutcome
            /\ stdout' = stdout \o <<"Serving web build from",
                                     "Open http://localhost",
                                     "Press Ctrl+C to stop">>
            /\ served' = TRUE
            /\ pc' = "serving"
            /\ UNCHANGED <<lanVars, endVars>>
    /\ UNCHANGED <<envVars, fileVars, configVars, tlsVars, genVars, attempts,
                   accepted, contentType>>

\* SimpleHTTPRequestHandler.guess_type on the handler's table
guess_type(ext) ==
    IF ext \in DOMAIN handlerMap THEN handlerMap[ext]
    ELSE "application/octet-stream"

\* serve_forever accepts a connection and answers a request for a file
\* with the given extension
HandleRequest(ext) ==
    /\ pc = "serving"
    /\ accepted' = TRUE
    /\ contentType' = guess_type(ext)
    /\ UNCHANGED <<envVars, fileVars, configVars, tlsVars, lanVars, genVars,
                   attempts, served, endVars, stdout, pc>>

Interrupt_Uncaught ==
    /\ pc \notin {"idle", "exited"}
    /\ interruptedAt' = pc
    /\ pc' = "exited"
    /\ stdout' = Append(stdout, "Traceback")
    /\ exitStatus' \in {1, 130}
    /\ UNCHANGED <<envVars, fileVars, configVars, tlsVars, lanVars, genVars,
                   serveVars, attempts, failure>>

\* the user presses Ctrl+C: KeyboardInterrupt is raised where the process
\* is; only the try around serve_forever catches it
Interrupt ==
    /\ pc \notin {"idle", "exited"}
    /\ interruptedAt' = pc
    /\ pc' = "exited"
    /\ IF pc = "serving"
       THEN /\ stdout' = Append(stdout, "Server stopped.")
            /\ exitStatus' = 0
       ELSE /\ stdout' = Append(stdout, "Traceback")
            /\ exitStatus' \in {1, 130}
    /\ UNCHANGED <<envVars, fileVars, configVars, tlsVars, lanVars, genVars,
                   serveVars, attempts, failure>>

Next ==
    \/ \E av \in CommandLines : StartRun(av)
    \/ CheckDir
    \/ Bind
    \/ CertCheck
    \/ \E outcome \in IpOutcomes : GenerateCertBegin(outcome)
    \/ \E result \in {"ok", "missing", "failed"} : Openssl(result)
    \/ LoadCert
    \/ \E outcome \in IpOutcomes \cup {NoOutcome} : Announce(outcome)
    \/ \E ext \in Exts : HandleRequest(ext)
    \/ Interrupt

Spec == Init /\ [][Next]_vars

\* The handler's table over every platform default table: plain HTTP runs
PlainCommandLines == {av \in CommandLines : \A i \in 1..Len(av) : av[i] # HTTPS_FLAG}

MimeInit == InitOn(PlatformMaps) /\ certFile = NoFile /\ keyFile = NoFile

MimeNext ==
    \/ \E av \in PlainCommandLines : StartRun(av)
    \/ CheckDir
    \/ Bind
    \/ Announce(NoOutcome)
    \/ \E ext \in Exts : HandleRequest(ext)
    \/ Interrupt

MimeSpec == MimeInit /\ [][MimeNext]_vars

\* ------------------------------------------------------------------------
\* Properties
\* ------------------------------------------------------------------------
Running == pc \notin {"idle", "exited"}
MissingAtStart == ~certAtStart.exists \/ ~keyAtStart.exists
Count(s, x) == Cardinality({i \in 1..Len(s) : s[i] = x})
HasPort(av) == \E i \in 2..Len(av) : av[i] # HTTPS_FLAG
HasFlag(av) == \E i \in 2..Len(av) : av[i] = HTTPS_FLAG
NoDirMessage == <<"Error: Web build directory not found", "Run 'zig build' first">>

\* C1: in a run started with --https, whatever the certificate directory
\* held at the start, both cert.pem and key.pem exist once the startup has
\* passed the TLS setup and while the serve loop runs; and a run that found
\* the bundle missing (either file absent) has called generate_cert by the
\* time it loads the certificate, hence before serve_forever is entered.
C1_CertBeforeServe ==
    use_https =>
        /\ pc \in {"announce", "serving"} => certFile.exists /\ keyFile.exists
        /\ (MissingAtStart /\ (pc \in {"load_cert", "announce", "serving"} \/ served))
              => genCalls = 1

C1_Witness ==
    /\ use_https
    /\ pc = "serving"
    /\ certAtStart.exists
    /\ ~keyAtStart.exists
    /\ genCalls = 1
    /\ certFile.exists
    /\ keyFile.exists

\* C2: when zig-out does not exist, a run that is not interrupted prints the
\* error naming the build step and exits with status 1, and no run gets past
\* the directory check: no socket is bound, no certificate is generated or
\* loaded, the serve loop is never entered; for every command line.
C2_NoRootNoBind ==
    (~rootExists /\ runs >= 1) =>
        /\ pc \in {"check_dir", "exited"}
        /\ ~sockBound
        /\ \A s \in Steps : attempts[s] = 0
        /\ genCalls = 0
        /\ tlsCert = NoFile
        /\ ~served
        /\ (pc = "exited" /\ interruptedAt = NoValue)
              => stdout = NoDirMessage /\ exitStatus = 1

C2_Witness ==
    /\ ~rootExists
    /\ pc = "exited"
    /\ interruptedAt = NoValue
    /\ use_https
    /\ port = 9443
    /\ stdout = NoDirMessage
    /\ exitStatus = 1

\* C3: a --https run that finds both files present never calls the
\* generation command and leaves both files as it found them, in every run
\* of a sequence; a --https run that finds neither file and gets to serve
\* has created both in that run.
C3_Idempotent ==
    (runs >= 1 /\ use_https) =>
        /\ (certAtStart.exists /\ keyAtStart.exists) =>
              /\ genCalls = 0
              /\ attempts["openssl"] = 0
              /\ certFile = certAtStart
              /\ keyFile = keyAtStart
        /\ (~certAtStart.exists /\ ~keyAtStart.exists /\ served) =>
              /\ certFile.exists /\ certFile.gen = runs
              /\ keyFile.exists /\ keyFile.gen = runs

C3_Witness ==
    /\ runs >= 2
    /\ use_https
    /\ served
    /\ certAtStart.exists
    /\ keyAtStart.exists
    /\ certFile.gen = 1
    /\ keyFile.gen = 1

\* C4: the SAN list handed to the generation command holds DNS:localhost and
\* IP:127.0.0.1 whatever the listing command did, holds an IP entry for each
\* address the listing printed on an inet line, and holds no entry twice.
C4_SanList ==
    pc = "openssl" =>
        /\ Contains(san, DnsEntry("localhost"))
        /\ Contains(san, IpEntry(LOOPBACK))
        /\ \A i \in 1..Len(san) : Count(san, san[i]) = 1
        /\ ipCmd.kind = "ok" =>
              \A j \in 1..Len(ipCmd.lines) :
                  ipCmd.lines[j].head = "inet" =>
                      Count(san, IpEntry(ipCmd.lines[j].addr)) = 1

C4_Witness ==
    /\ pc = "openssl"
    /\ ipCmd.kind = "ok"
    /\ Len(ipCmd.lines) = 2
    /\ ipCmd.lines[1] = ipCmd.lines[2]
    /\ ipCmd.lines[1].head = "inet"
    /\ ipCmd.lines[1].addr \in LanAddrs
    /\ Len(san) = 3

\* C5: when the listing command is missing or exits non-zero, get_lan_ips
\* raises nothing and returns exactly <<127.0.0.1>> (whatever the command
\* printed), so no run ends because of the discovery.
C5_BestEffort ==
    /\ failure # "discovery"
    /\ ipCmd.kind \in {"missing", "failed"} =>
          /\ ips = <<LOOPBACK>>
          /\ advertised = <<>>
          /\ pc = "openssl" => san = <<DnsEntry("localhost"), IpEntry(LOOPBACK)>>

C5_Witness ==
    /\ pc = "openssl"
    /\ ipCmd.kind = "failed"
    /\ \E j \in 1..Len(ipCmd.lines) :
          ipCmd.lines[j].head = "inet" /\ ipCmd.lines[j].addr \in LanAddrs
    /\ ips = <<LOOPBACK>>

\* C6: a failed bind, a failed or missing generation command and a failed
\* load of the PEM files each end the process with a non-zero status before
\* the serve loop is entered or a connection accepted, and no startup step
\* is tried more than once in a run.
C6_FatalAtStartup ==
    /\ \A s \in Steps : attempts[s] <= 1
    /\ failure # NoValue =>
          /\ pc = "exited"
          /\ ~served
          /\ ~accepted
          /\ exitStatus = 1
          /\ failure \in Steps
          /\ attempts[failure] = 1

C6_Witness ==
    /\ failure = "load"
    /\ pc = "exited"
    /\ attempts = [s \in Steps |-> IF s = "bind" \/ s = "load" THEN 1 ELSE 0]
    /\ certFile.exists
    /\ keyFile.exists
    /\ certFile.gen # keyFile.gen

\* C7 as stated: wherever the interrupt arrives, the process prints the
\* shutdown confirmation and exits with status 0.
C7_AnyPoint ==
    interruptedAt # NoValue =>
        /\ stdout[Len(stdout)] = "Server stopped."
        /\ exitStatus = 0

\* C7 amended: an interrupt that arrives while the serve loop runs makes the
\* process print the shutdown confirmation and exit with status 0.
C7_DuringServe ==
    interruptedAt = "serving" =>
        /\ pc = "exited"
        /\ stdout[Len(stdout)] = "Server stopped."
        /\ exitStatus = 0

C7_Witness ==
    /\ interruptedAt = "serving"
    /\ accepted
    /\ exitStatus = 0

\* C8: for every command line of an optional --https and an optional port,
\* in either order, use_https is true exactly when --https is given, and
\* port is the given integer, or 8000 when none is given.
C8_ArgParsing ==
    runs >= 1 =>
        /\ use_https = HasFlag(argv)
        /\ \A p \in Ports :
              (\E i \in 2..Len(argv) : argv[i] = str(p)) => port = p
        /\ ~HasPort(argv) => port = 8000

C8_Witness ==
    /\ runs >= 1
    /\ argv = <<PROGRAM_NAME, str(9443), HTTPS_FLAG>>
    /\ use_https
    /\ port = 9443

\* C9: whatever the platform's default table, the handler's table sends
\* .wasm to application/wasm, .js and .mjs to application/javascript, and
\* agrees with the default table on every other extension (mapped to the
\* same type, or unmapped in both).
C9_MimeOverrides ==
    runs >= 1 =>
        /\ ".wasm" \in DOMAIN handlerMap /\ handlerMap[".wasm"] = "application/wasm"
        /\ ".js" \in DOMAIN handlerMap /\ handlerMap[".js"] = "application/javascript"
        /\ ".mjs" \in DOMAIN handlerMap /\ handlerMap[".mjs"] = "application/javascript"
        /\ \A e \in Exts \ {".wasm", ".js", ".mjs"} :
              /\ e \in DOMAIN handlerMap <=> e \in DOMAIN platformMap
              /\ e \in DOMAIN platformMap => handlerMap[e] = platformMap[e]

C9_Witness ==
    /\ pc = "serving"
    /\ ".js" \in DOMAIN platformMap
    /\ platformMap[".js"] = "text/javascript"
    /\ ".wasm" \notin DOMAIN platformMap
    /\ ".html" \in DOMAIN platformMap
    /\ contentType = "application/javascript"

\* C10 as stated: under --https every address advertised at startup has an
\* IP entry in the SAN list of the certificate the server presents.
C10_AdvertisedCovered ==
    (use_https /\ pc = "serving") =>
        \A i \in 1..Len(advertised) : Contains(tlsCert.san, IpEntry(advertised[i]))

====
